---- MODULE Spec2Model ----
(***************************************************************************)
(* Model of the video conversion worker: main's consume loop spawns one   *)
(* goroutine per delivery, each running VideoConverter.Handle against the *)
(* shared PostgreSQL tables, the shared upload directories and the shared *)
(* RabbitMQ channel.  Every blocking call of Handle (a query, a file      *)
(* operation, the ffmpeg subprocess, an ack, a publish) is one atomic     *)
(* step of its goroutine; goroutines interleave between steps.            *)
(***************************************************************************)
EXTENDS Integers, Sequences, FiniteSets, Bags, TLC

\* ------------------------------------------------------------------ bounds

\* Number of deliveries main's loop hands to goroutines in one run.
MaxTasks == 2

Tasks == 1..MaxTasks

\* The video ids that occur in message bodies.
VideoIds == {1, 2}

\* ------------------------------------------------------- message bodies

\* The upload directory the producer names for a video.
PathOf(v) == IF v = 1 THEN "media/uploads/1" ELSE "media/uploads/2"

Paths == {PathOf(v) : v \in VideoIds}

\* Bodies that unmarshal: {"video_id": v, "path": p}.
JobBodies == {[kind |-> "job", video_id |-> v, path |-> PathOf(v)] : v \in VideoIds}

\* Bodies json.Unmarshal rejects: a syntax error leaves the task zero-valued,
\* a type error on "path" is returned after video_id has been stored.
BadBodies ==
    {[kind |-> "syntax", video_id |-> 0, path |-> ""],
     [kind |-> "type", video_id |-> 1, path |-> ""]}

Bodies == JobBodies \cup BadBodies

\* ---------------------------------------------------------------- errors

\* An error value: the text fmt.Errorf builds, kept as its parts.
NilErr == [stage |-> "", cause |-> "", chunk |-> <<>>, output |-> ""]

\* fmt.Errorf("<stage>: %v", cause) and its variants naming a chunk or
\* carrying the transcoder's combined output.
Errorf(stage, cause, chunk, output) ==
    [stage |-> stage, cause |-> cause, chunk |-> chunk, output |-> output]

\* The zero VideoTask.
ZeroTask == [VideoId |-> 0, Path |-> ""]

\* json.Unmarshal(d.Body, &task): the task it leaves behind and its error.
Unmarshal(b) ==
    IF b.kind = "job"
    THEN [task |-> [VideoId |-> b.video_id, Path |-> b.path], err |-> NilErr]
    ELSE [task |-> [VideoId |-> b.video_id, Path |-> ""],
          err |-> Errorf("json", b.kind, <<>>, "")]

\* ------------------------------------------------------------ chunk files

\* A file name is the sequence of its characters.
Digits == <<"0", "1", "2", "3", "4", "5", "6", "7", "8", "9">>

IsDigit(c) == \E i \in 1..Len(Digits) : Digits[i] = c

DigitVal(c) == (CHOOSE i \in 1..Len(Digits) : Digits[i] = c) - 1

Chunk10 == <<"1", "0", ".", "c", "h", "u", "n", "k">>
Chunk2 == <<"2", ".", "c", "h", "u", "n", "k">>
Chunk1 == <<"1", ".", "c", "h", "u", "n", "k">>
Chunk2b == <<"2", "b", ".", "c", "h", "u", "n", "k">>
ChunkHead == <<"h", "e", "a", "d", ".", "c", "h", "u", "n", "k">>
ChunkTail == <<"t", "a", "i", "l", ".", "c", "h", "u", "n", "k">>

\* filepath.Base(fileName).
Base(fileName) == fileName.base

\* re.FindString for \d+: the first maximal run of digits, "" if none.
RECURSIVE DigitRun(_)
DigitRun(s) ==
    IF s = <<>> \/ ~IsDigit(Head(s)) THEN <<>>
    ELSE <<Head(s)>> \o DigitRun(Tail(s))

RECURSIVE FindString(_)
FindString(s) ==
    IF s = <<>> THEN <<>>
    ELSE IF IsDigit(Head(s)) THEN DigitRun(s)
    ELSE FindString(Tail(s))

\* strconv.Atoi on a run of digits: its value, base ten.
RECURSIVE AtoiValue(_)
AtoiValue(s) ==
    IF s = <<>> THEN 0
    ELSE 10 * AtoiValue(SubSeq(s, 1, Len(s) - 1)) + DigitVal(s[Len(s)])

\* An extractNumber that puts the names without digits after the others.
extractNumber_NoDigitsLast(fileName) ==
    LET numStr == FindString(Base(fileName))
    IN IF numStr = <<>> THEN 1000 ELSE AtoiValue(numStr)

\* extractNumber: -1 when Atoi fails, which it does on the empty string.
extractNumber(fileName) ==
    LET numStr == FindString(Base(fileName))
    IN IF numStr = <<>> THEN -1 ELSE AtoiValue(numStr)

\* The permutations of 1..n.
Perms(n) == {f \in [1..n -> 1..n] : \A i, j \in 1..n : i # j => f[i] # f[j]}

\* A merge that leaves the chunks in the order Glob listed them.
SortSlice_GlobOrder(chunks) == {chunks}

\* sort.Slice(chunks, less) with less comparing extractNumber: a
\* rearrangement of chunks in which no later element is less than an earlier
\* one.  sort.Slice does not promise to keep equal elements in order.
SortSlice(chunks) ==
    {[i \in 1..Len(chunks) |-> chunks[f[i]]] : f \in
        {g \in Perms(Len(chunks)) :
            \A i, j \in 1..Len(chunks) :
                i < j => ~(extractNumber(chunks[g[j]]) < extractNumber(chunks[g[i]]))}}

\* ------------------------------------------------------------ file system

\* A region of a file that was never written (a hole left by a write past
\* the end after a truncation).
Hole == [dir |-> "", base |-> <<>>]

\* Writing one chunk's content at offset off of a file holding data.
WriteAt(data, off, c) ==
    [i \in 1..(IF Len(data) > off + 1 THEN Len(data) ELSE off + 1) |->
        IF i = off + 1 THEN c
        ELSE IF i <= Len(data) THEN data[i]
        ELSE Hole]

\* A closed (or never opened) file handle.
NoHandle == [ino |-> 0, off |-> 0]

\* ------------------------------------------------------------------ state

VARIABLES
    pc,                  \* each goroutine's position in Handle
    body,                \* d.Body of the delivery a goroutine handles
    task,                \* Handle's local VideoTask
    err,                 \* Handle's / processVideo's local err
    chunks,              \* mergeChunks: the sorted chunks still to append
    output,              \* mergeChunks: the handle os.Create returned
    trace,               \* the calls a goroutine has made, in order
    processed_videos,    \* table processed_videos, a bag of rows
    process_errors_log,  \* table process_errors_log, rows in insertion order
    acked,               \* deliveries acknowledged on the channel
    confirmations,       \* messages published with the confirmation key
    dirent,              \* <path>/merged.mp4: the inode it names, 0 if none
    inode,               \* content of the file each os.Create made anew
    mpegDash,            \* the directories <path>/mpeg-dash that exist
    dirs,                \* the *.chunk files of each upload directory
    redelivered          \* how often the broker delivered a message again

vars ==
    <<pc, body, task, err, chunks, output, trace, processed_videos,
      process_errors_log, acked, confirmations, dirent, inode, mpegDash, dirs,
      redelivered>>

locals == <<body, task, err, chunks, output>>
database == <<processed_videos, process_errors_log>>
transport == <<acked, confirmations>>
files == <<dirent, inode, mpegDash>>

\* filepath.Glob(filepath.Join(inputDir, "*.chunk")): the matching files of
\* the upload directory, in the lexical order Glob returns them.  A chunk
\* file is named by its directory and its base name.
Glob(inputDir) == IF inputDir \in Paths THEN dirs[inputDir] ELSE <<>>

\* The chunk files the two upload directories hold.
Uploads ==
    [p \in Paths |->
        IF p = "media/uploads/1"
        THEN <<[dir |-> p, base |-> Chunk10], [dir |-> p, base |-> Chunk2]>>
        ELSE <<[dir |-> p, base |-> Chunk1], [dir |-> p, base |-> ChunkTail]>>]

\* One call a goroutine made: its name, whether it succeeded, what it
\* carried (the query's answer, the report, the published message, ...).
Event(op, ok, data) == [op |-> op, ok |-> ok, data |-> data]

Record(t, op, ok, data) == trace' = [trace EXCEPT ![t] = Append(@, Event(op, ok, data))]

Goto(t, label) == pc' = [pc EXCEPT ![t] = label]

Init ==
    /\ pc = [t \in Tasks |-> "idle"]
    /\ body = [t \in Tasks |-> [kind |-> "syntax", video_id |-> 0, path |-> ""]]
    /\ task = [t \in Tasks |-> ZeroTask]
    /\ err = [t \in Tasks |-> NilErr]
    /\ chunks = [t \in Tasks |-> <<>>]
    /\ output = [t \in Tasks |-> NoHandle]
    /\ trace = [t \in Tasks |-> <<>>]
    /\ processed_videos = EmptyBag
    /\ process_errors_log = <<>>
    /\ acked = {}
    /\ confirmations = <<>>
    /\ dirent = [p \in Paths |-> 0]
    /\ inode = [t \in Tasks |-> <<>>]
    /\ mpegDash = {}
    /\ dirs = Uploads
    /\ redelivered = [t \in Tasks |-> 0]

\* ------------------------------------------------------------- main loop

\* for d := range msgs { go func(delivery) { vc.Handle(delivery, ...) }(d) }:
\* the next delivery of the channel starts the next goroutine.
Deliver(t, b) ==
    /\ pc[t] = "idle"
    /\ \A u \in Tasks : u < t => pc[u] # "idle"
    /\ body' = [body EXCEPT ![t] = b]
    /\ Goto(t, "Handle")
    /\ UNCHANGED <<task, err, chunks, output, trace, database, transport, files, dirs, redelivered>>

\* ---------------------------------------------------------------- Handle

\* A Handle that goes on after a malformed body.
AfterUnmarshal_Continue(e) == "IsProcessed"

\* Where Handle goes after json.Unmarshal: lines 45-48.
AfterUnmarshal(e) == IF e # NilErr THEN "logError_unmarshal" ELSE "IsProcessed"

\* Handle, lines 40-48: unmarshal the body; on error report it and return.
\* The event notes which goroutines had already returned when Handle began.
HandleUnmarshal(t) ==
    /\ pc[t] = "Handle"
    /\ LET r == Unmarshal(body[t])
       IN /\ task' = [task EXCEPT ![t] = r.task]
          /\ err' = [err EXCEPT ![t] = r.err]
          /\ Record(t, "Unmarshal", r.err = NilErr, {u \in Tasks : pc[u] = "done"})
          /\ Goto(t, AfterUnmarshal(r.err))
    /\ UNCHANGED <<body, chunks, output, database, transport, files, dirs, redelivered>>

\* The row MarkProcessed inserts (processed_at left out).
ProcessedRow(videoID) == [video_id |-> videoID, status |-> "success"]

\* An idempotency query that takes a storage error for "already processed".
IsProcessed_ErrorMeansProcessed(db, videoId, queryFails) ==
    IF queryFails THEN TRUE ELSE BagIn(ProcessedRow(videoId), db)

\* An idempotency query that never finds the row.
IsProcessed_AlwaysFalse(db, videoId, queryFails) == FALSE

\* IsProcessed: SELECT EXISTS(... where video_id = $1 and status =
\* 'success'); a failed query answers false.
IsProcessed(db, videoId, queryFails) ==
    IF queryFails THEN FALSE ELSE BagIn(ProcessedRow(videoId), db)

\* Where Handle goes after IsProcessed: lines 50-56.
AfterIsProcessed(isProcessed) == IF isProcessed THEN "AckDuplicate" ELSE "mergeChunks"

\* Handle, lines 50-54: the idempotency gate.  The event notes the answer
\* and how many rows the table held for the video when the query ran.
HandleIsProcessed(t) ==
    /\ pc[t] = "IsProcessed"
    /\ \E queryFails \in BOOLEAN :
         LET isProcessed == IsProcessed(processed_videos, task[t].VideoId, queryFails)
             rows == CopiesIn(ProcessedRow(task[t].VideoId), processed_videos)
         IN /\ Record(t, "IsProcessed", ~queryFails, [answer |-> isProcessed, rows |-> rows])
            /\ Goto(t, AfterIsProcessed(isProcessed))
    /\ UNCHANGED <<locals, database, transport, files, dirs, redelivered>>

\* Handle, lines 52-53: acknowledge the duplicate and return.
HandleAckDuplicate(t) ==
    /\ pc[t] = "AckDuplicate"
    /\ acked' = acked \cup {t}
    /\ Record(t, "Ack", TRUE, t)
    /\ Goto(t, "done")
    /\ UNCHANGED <<locals, database, confirmations, files, dirs, redelivered>>

\* ---------------------------------------------------------- processVideo

\* A processVideo that passes the stage's error on without its prefix.
Wrap_NoStage(prefix, e) == e

\* processVideo wraps a stage's error: fmt.Errorf("<prefix>: %v", e).
Wrap(prefix, e) == [e EXCEPT !.stage = prefix]

\* filepath.Join(task.Path, "merged.mp4") is the entry dirent[task.Path].
\* os.Create(outputFile): truncate the file the name refers to, or make a new
\* file (a new inode, named after the goroutine that made it).
CreateIno(t) == IF dirent[task[t].Path] = 0 THEN t ELSE dirent[task[t].Path]

\* A processVideo that ignores mergeChunks' error.
AfterMerge_IgnoreError(e) == "MkdirAll"

\* Where processVideo goes when mergeChunks returns: lines 81-83.
AfterMerge(e) == IF e # NilErr THEN "logError_process" ELSE "MkdirAll"

\* mergeChunks, lines 137-156: list the chunks, sort them, create the output.
MergeCreate(t) ==
    /\ pc[t] = "mergeChunks"
    /\ \E sorted \in SortSlice(Glob(task[t].Path)), createFails \in BOOLEAN :
         IF createFails
         THEN LET e == Wrap("failed to merge chunks",
                            Errorf("", "failed to create merged file", <<>>, ""))
              IN /\ err' = [err EXCEPT ![t] = e]
                 /\ Record(t, "mergeChunks", FALSE, <<>>)
                 /\ Goto(t, AfterMerge(e))
                 /\ UNCHANGED <<chunks, output, files>>
         ELSE /\ dirent' = [dirent EXCEPT ![task[t].Path] = CreateIno(t)]
              /\ inode' = [inode EXCEPT ![CreateIno(t)] = <<>>]
              /\ IF sorted = <<>>
                 THEN /\ Record(t, "mergeChunks", TRUE, <<>>)
                      /\ Goto(t, AfterMerge(NilErr))
                      /\ UNCHANGED <<chunks, output>>
                 ELSE /\ chunks' = [chunks EXCEPT ![t] = sorted]
                      /\ output' = [output EXCEPT ![t] = [ino |-> CreateIno(t), off |-> 0]]
                      /\ Goto(t, "copy")
                      /\ UNCHANGED trace
              /\ UNCHANGED <<err, mpegDash>>
    /\ UNCHANGED <<body, task, database, transport, dirs, redelivered>>

\* mergeChunks, lines 159-173: open the next chunk and copy it to the output;
\* the deferred Close runs when the function returns.
MergeCopy(t) ==
    /\ pc[t] = "copy"
    /\ LET chunk == Head(chunks[t])
           h == output[t]
       IN \E outcome \in {"copied", "failed to open chunk", "failed to write chunk"} :
            IF outcome = "copied"
            THEN /\ inode' = [inode EXCEPT ![h.ino] = WriteAt(@, h.off, chunk)]
                 /\ chunks' = [chunks EXCEPT ![t] = Tail(@)]
                 /\ IF Tail(chunks[t]) = <<>>
                    THEN /\ output' = [output EXCEPT ![t] = NoHandle]
                         /\ Record(t, "mergeChunks", TRUE, WriteAt(inode[h.ino], h.off, chunk))
                         /\ Goto(t, AfterMerge(NilErr))
                    ELSE /\ output' = [output EXCEPT ![t] = [ino |-> h.ino, off |-> h.off + 1]]
                         /\ UNCHANGED <<trace, pc>>
                 /\ UNCHANGED err
            ELSE LET e == Wrap("failed to merge chunks", Errorf("", outcome, Base(chunk), ""))
                 IN /\ err' = [err EXCEPT ![t] = e]
                    /\ output' = [output EXCEPT ![t] = NoHandle]
                    /\ Record(t, "mergeChunks", FALSE, inode[h.ino])
                    /\ Goto(t, AfterMerge(e))
                    /\ UNCHANGED <<chunks, inode>>
    /\ UNCHANGED <<body, task, dirent, mpegDash, database, transport, dirs, redelivered>>

\* What ffmpegCmd.CombinedOutput() captured from a failed run.
CombinedOutput == "ffmpeg combined output"

\* Where processVideo goes after os.MkdirAll: lines 86-88.
AfterMkdirAll(e) == IF e # NilErr THEN "logError_process" ELSE "ffmpeg"

\* processVideo, lines 85-88: create <path>/mpeg-dash.
ProcessMkdirAll(t) ==
    /\ pc[t] = "MkdirAll"
    /\ \E mkdirFails \in BOOLEAN :
         LET e == IF mkdirFails
                  THEN Wrap("failed to create output directory", Errorf("", "mkdir", <<>>, ""))
                  ELSE NilErr
         IN /\ err' = [err EXCEPT ![t] = e]
            /\ mpegDash' = IF mkdirFails THEN mpegDash ELSE mpegDash \cup {task[t].Path}
            /\ Record(t, "MkdirAll", ~mkdirFails, task[t].Path)
            /\ Goto(t, AfterMkdirAll(e))
    /\ UNCHANGED <<body, task, chunks, output, dirent, inode, database, transport, dirs, redelivered>>

\* A processVideo that ignores the transcoder's exit status.
AfterFfmpeg_IgnoreError(e) == "Remove"

\* Where processVideo goes after ffmpeg: lines 96-99.
AfterFfmpeg(e) == IF e # NilErr THEN "logError_process" ELSE "Remove"

\* The content ffmpeg finds at mergedFile; a missing file has none.
MergedContent(path) ==
    IF dirent[path] = 0 THEN [exists |-> FALSE, data |-> <<>>]
    ELSE [exists |-> TRUE, data |-> inode[dirent[path]]]

\* processVideo, lines 90-99: run ffmpeg on the merged file; a non-zero exit
\* is an error carrying the combined output.  ffmpeg exits non-zero when
\* its input does not exist.
ProcessFfmpeg(t) ==
    /\ pc[t] = "ffmpeg"
    /\ LET input == MergedContent(task[t].Path)
       IN \E exit \in (IF input.exists THEN {0, 1} ELSE {1}) :
            LET e == IF exit # 0
                     THEN Wrap("failed to convert to MPEG-DASH",
                               Errorf("", "exit status 1", <<>>, CombinedOutput))
                     ELSE NilErr
            IN /\ err' = [err EXCEPT ![t] = e]
               /\ Record(t, "ffmpeg", exit = 0, input)
               /\ Goto(t, AfterFfmpeg(e))
    /\ UNCHANGED <<body, task, chunks, output, files, database, transport, dirs, redelivered>>

\* processVideo, lines 101-106: remove the merged file; a failure is only
\* logged and processVideo returns nil.
ProcessRemove(t) ==
    /\ pc[t] = "Remove"
    /\ \E removeFails \in (IF dirent[task[t].Path] = 0 THEN {TRUE} ELSE BOOLEAN) :
         /\ dirent' = IF removeFails THEN dirent ELSE [dirent EXCEPT ![task[t].Path] = 0]
         /\ Record(t, "Remove", ~removeFails, task[t].Path)
    /\ Goto(t, "MarkProcessed")
    /\ UNCHANGED <<locals, inode, mpegDash, database, transport, dirs, redelivered>>

\* ------------------------------------------------- Handle, after the pipeline

\* MarkProcessed: INSERT INTO processed_videos (video_id, status,
\* processed_at); the table and the error it returns.
MarkProcessed(db, videoID, execFails) ==
    IF execFails
    THEN [db |-> db, err |-> Errorf("", "pq: insert failed", <<>>, "")]
    ELSE [db |-> db (+) SetToBag({ProcessedRow(videoID)}), err |-> NilErr]

\* A Handle that does not return after a failed MarkProcessed.
AfterMarkProcessed_AlwaysAck(e) == "Ack"

\* A Handle that publishes the confirmation without acknowledging first.
AfterMarkProcessed_SkipAck(e) == IF e # NilErr THEN "logError_mark" ELSE "PublishMessage"

\* Where Handle goes after MarkProcessed: lines 64-68.
AfterMarkProcessed(e) == IF e # NilErr THEN "logError_mark" ELSE "Ack"

\* Handle, lines 62-67: record the video as processed.
HandleMarkProcessed(t) ==
    /\ pc[t] = "MarkProcessed"
    /\ \E execFails \in BOOLEAN :
         LET r == MarkProcessed(processed_videos, task[t].VideoId, execFails)
         IN /\ processed_videos' = r.db
            /\ err' = [err EXCEPT ![t] = r.err]
            /\ Record(t, "MarkProcessed", r.err = NilErr, task[t].VideoId)
            /\ Goto(t, AfterMarkProcessed(r.err))
    /\ UNCHANGED <<body, task, chunks, output, process_errors_log, transport, files, dirs, redelivered>>

\* Handle, line 68: d.Ack(false).
HandleAck(t) ==
    /\ pc[t] = "Ack"
    /\ acked' = acked \cup {t}
    /\ Record(t, "Ack", TRUE, t)
    /\ Goto(t, "PublishMessage")
    /\ UNCHANGED <<locals, database, confirmations, files, dirs, redelivered>>

\* A confirmation that loses the path.
ConfirmationMessage_NoPath(tk) == [video_id |-> tk.VideoId, path |-> ""]

\* fmt.Sprintf(`{"video_id": %d, "path":"%s"}`, task.VideoId, task.Path).
ConfirmationMessage(tk) == [video_id |-> tk.VideoId, path |-> tk.Path]

\* Handle, lines 71-73: publish the confirmation; the error PublishMessage
\* returns is assigned to err and never read.
HandlePublishMessage(t) ==
    /\ pc[t] = "PublishMessage"
    /\ \E publishFails \in BOOLEAN :
         LET confirmationMessage == ConfirmationMessage(task[t])
         IN /\ confirmations' = IF publishFails THEN confirmations
                                ELSE Append(confirmations, confirmationMessage)
            /\ err' = [err EXCEPT ![t] =
                        IF publishFails
                        THEN Errorf("", "failed to publish messages", <<>>, "")
                        ELSE NilErr]
            /\ Record(t, "PublishMessage", ~publishFails, confirmationMessage)
    /\ Goto(t, "done")
    /\ UNCHANGED <<body, task, chunks, output, database, acked, files, dirs, redelivered>>

\* ---------------------------------------------------------------- logError

\* The message Handle passes to logError at each of its three call sites
\* (lines 46, 58 and 65).
LogMessage(label) ==
    IF label = "logError_unmarshal" THEN "Failed to unmarshal task"
    ELSE IF label = "logError_process" THEN "Failed to process video"
    ELSE "Failed to mark video as processed"

\* A report that drops the cause.
ErrorData_NoDetails(tk, message, e) == [video_id |-> tk.VideoId, error |-> message, details |-> NilErr]

\* logError's errorData (the time left out).
ErrorData(tk, message, e) == [video_id |-> tk.VideoId, error |-> message, details |-> e]

\* A RegisterError that inserts the row twice.
RegisterError_Twice(log, errorData, execFails) ==
    IF execFails THEN log ELSE Append(Append(log, errorData), errorData)

\* RegisterError: INSERT INTO process_errors_log; a failed insert is logged
\* and dropped.
RegisterError(log, errorData, execFails) ==
    IF execFails THEN log ELSE Append(log, errorData)

\* A reporter whose failed insert makes Handle acknowledge the delivery.
AfterLogError_AckOnFailure(dbErrSet) == IF dbErrSet THEN "Ack" ELSE "done"

\* logError, lines 117-121: a failed RegisterError is logged with slog.Error
\* and logError returns as it does after a stored report.
AfterLogError(dbErrSet) == "done"

\* logError, then Handle's return.
HandleLogError(t) ==
    /\ pc[t] \in {"logError_unmarshal", "logError_process", "logError_mark"}
    /\ \E execFails \in BOOLEAN :
         LET errorData == ErrorData(task[t], LogMessage(pc[t]), err[t])
         IN /\ process_errors_log' = RegisterError(process_errors_log, errorData, execFails)
            /\ Record(t, "logError", ~execFails, errorData)
            /\ Goto(t, AfterLogError(execFails))
    /\ UNCHANGED <<locals, processed_videos, transport, files, dirs, redelivered>>

\* ------------------------------------------------------------ specification

Next ==
    \/ \E t \in Tasks, b \in Bodies : Deliver(t, b)
    \/ \E t \in Tasks : HandleUnmarshal(t)
    \/ \E t \in Tasks : HandleIsProcessed(t)
    \/ \E t \in Tasks : HandleAckDuplicate(t)
    \/ \E t \in Tasks : MergeCreate(t)
    \/ \E t \in Tasks : MergeCopy(t)
    \/ \E t \in Tasks : ProcessMkdirAll(t)
    \/ \E t \in Tasks : ProcessFfmpeg(t)
    \/ \E t \in Tasks : ProcessRemove(t)
    \/ \E t \in Tasks : HandleMarkProcessed(t)
    \/ \E t \in Tasks : HandleAck(t)
    \/ \E t \in Tasks : HandlePublishMessage(t)
    \/ \E t \in Tasks : HandleLogError(t)

Spec == Init /\ [][Next]_vars

\* ------------------------------------------- one delivery, any directory

\* The most chunk files an upload directory holds.
MaxChunks == 3

\* The names an upload directory may hold, in the lexical order Glob lists
\* them.
ChunkNames == <<Chunk1, Chunk10, Chunk2, Chunk2b, ChunkHead, ChunkTail>>

\* The choices of at most MaxChunks of these names.
Selections ==
    UNION {{ix \in [1..n -> 1..Len(ChunkNames)] : \A i, j \in 1..n : i < j => ix[i] < ix[j]}
              : n \in 0..MaxChunks}

\* What Glob returns for the directory p that holds the chosen names.
Listing(p, ix) == [i \in 1..Len(ix) |-> [dir |-> p, base |-> ChunkNames[ix[i]]]]

\* As Init, with upload directories of any contents.
InitMerge ==
    /\ pc = [t \in Tasks |-> "idle"]
    /\ body = [t \in Tasks |-> [kind |-> "syntax", video_id |-> 0, path |-> ""]]
    /\ task = [t \in Tasks |-> ZeroTask]
    /\ err = [t \in Tasks |-> NilErr]
    /\ chunks = [t \in Tasks |-> <<>>]
    /\ output = [t \in Tasks |-> NoHandle]
    /\ trace = [t \in Tasks |-> <<>>]
    /\ processed_videos = EmptyBag
    /\ process_errors_log = <<>>
    /\ acked = {}
    /\ confirmations = <<>>
    /\ dirent = [p \in Paths |-> 0]
    /\ inode = [t \in Tasks |-> <<>>]
    /\ mpegDash = {}
    /\ \E ix \in Selections : dirs = [p \in Paths |-> Listing(p, ix)]
    /\ redelivered = [t \in Tasks |-> 0]

\* The first delivery of a job, handled by the first goroutine alone.
NextMerge ==
    \/ \E b \in JobBodies : Deliver(1, b)
    \/ HandleUnmarshal(1)
    \/ HandleIsProcessed(1)
    \/ MergeCreate(1)
    \/ MergeCopy(1)
    \/ ProcessMkdirAll(1)
    \/ ProcessFfmpeg(1)
    \/ ProcessRemove(1)
    \/ HandleMarkProcessed(1)
    \/ HandleAck(1)
    \/ HandlePublishMessage(1)
    \/ HandleLogError(1)

SpecMerge == InitMerge /\ [][NextMerge]_vars

\* ------------------------------------------ one message, delivered again

\* The most redeliveries of one message.
MaxRedeliveries == 2

\* channel.Consume with autoAck false (client line 65): a delivery whose
\* Handle returned without d.Ack stays unacknowledged, and the broker hands
\* the message to the consume loop again, which starts a new goroutine for it.
Redeliver(t) ==
    /\ pc[t] = "done"
    /\ t \notin acked
    /\ redelivered[t] < MaxRedeliveries
    /\ redelivered' = [redelivered EXCEPT ![t] = @ + 1]
    /\ task' = [task EXCEPT ![t] = ZeroTask]
    /\ err' = [err EXCEPT ![t] = NilErr]
    /\ chunks' = [chunks EXCEPT ![t] = <<>>]
    /\ trace' = [trace EXCEPT ![t] = <<>>]
    /\ Goto(t, "Handle")
    /\ UNCHANGED <<body, output, database, transport, files, dirs>>

\* One message and its redeliveries, each handled by a goroutine of its own.
NextRedelivery ==
    \/ \E b \in Bodies : Deliver(1, b)
    \/ HandleUnmarshal(1)
    \/ HandleIsProcessed(1)
    \/ MergeCreate(1)
    \/ MergeCopy(1)
    \/ ProcessMkdirAll(1)
    \/ ProcessFfmpeg(1)
    \/ ProcessRemove(1)
    \/ HandleMarkProcessed(1)
    \/ HandleAck(1)
    \/ HandlePublishMessage(1)
    \/ HandleLogError(1)
    \/ Redeliver(1)

\* The Go scheduler runs every goroutine that can take a step, and the
\* broker is taken to redeliver what is left unacknowledged.
SpecRedelivery == Init /\ [][NextRedelivery]_vars /\ WF_vars(NextRedelivery)

\* ------------------------------------------------------ reading the traces

Called(t, op) == \E i \in DOMAIN trace[t] : trace[t][i].op = op

Did(t, op, ok) == \E i \in DOMAIN trace[t] : trace[t][i].op = op /\ trace[t][i].ok = ok

Count(t, op) == Cardinality({i \in DOMAIN trace[t] : trace[t][i].op = op})

\* IsProcessed returned true to this goroutine.
AnsweredProcessed(t) ==
    \E i \in DOMAIN trace[t] : trace[t][i].op = "IsProcessed" /\ trace[t][i].data.answer

\* processVideo returned nil: merge, output directory and transcode succeeded
\* and the cleanup step ran.
ProcessVideoSucceeded(t) ==
    /\ Did(t, "mergeChunks", TRUE)
    /\ Did(t, "MkdirAll", TRUE)
    /\ Did(t, "ffmpeg", TRUE)
    /\ Called(t, "Remove")

\* A stage of processVideo failed.
StageFailed(t) ==
    Did(t, "mergeChunks", FALSE) \/ Did(t, "MkdirAll", FALSE) \/ Did(t, "ffmpeg", FALSE)

\* Merge, transcode and MarkProcessed all succeeded in this goroutine.
FullyCompleted(t) == ProcessVideoSucceeded(t) /\ Did(t, "MarkProcessed", TRUE)

HasRecord(v) == BagIn(ProcessedRow(v), processed_videos)

\* The positions of Handle inside processVideo.
PipelineLabels == {"mergeChunks", "copy", "MkdirAll", "ffmpeg", "Remove"}

\* ------------------------------------------------------------------ claims

\* C1: a delivery is positively acknowledged only if IsProcessed returned
\* true for its job, or processVideo succeeded and the MarkProcessed call
\* after it succeeded; after a malformed body, a failed pipeline stage or a
\* failed MarkProcessed the delivery is never acknowledged.
C1_AckOnlyDuplicateOrMarked ==
    \A t \in Tasks :
        /\ (t \in acked \/ Called(t, "Ack")) =>
              \/ AnsweredProcessed(t)
              \/ ProcessVideoSucceeded(t) /\ Did(t, "MarkProcessed", TRUE)
        /\ (Did(t, "Unmarshal", FALSE) \/ StageFailed(t) \/ Did(t, "MarkProcessed", FALSE)) =>
              t \notin acked /\ ~Called(t, "Ack")

\* Both acknowledged outcomes occur in one run, beside each other.
C1_Witness ==
    \E t1, t2 \in Tasks :
        /\ t1 \in acked /\ AnsweredProcessed(t1)
        /\ t2 \in acked /\ FullyCompleted(t2) /\ ~AnsweredProcessed(t2)

\* C2: no goroutine is at a step of the merge/transcode pipeline for video V
\* (about to start or to continue it) while a ProcessedVideoRecord for V
\* exists.
C2_NoPipelineOnProcessed ==
    \A t \in Tasks : pc[t] \in PipelineLabels => ~HasRecord(task[t].VideoId)

\* C3: a row with status success exists for V exactly when some goroutine
\* handling V completed merge, transcode and MarkProcessed; no goroutine
\* whose merge or transcode failed inserts a row.
C3_RecordIffCompleted ==
    /\ \A v \in VideoIds :
          HasRecord(v) <=> \E t \in Tasks : task[t].VideoId = v /\ FullyCompleted(t)
    /\ \A r \in BagToSet(processed_videos) : r.status = "success" /\ r.video_id \in VideoIds
    /\ \A t \in Tasks :
          (Did(t, "mergeChunks", FALSE) \/ Did(t, "ffmpeg", FALSE)) =>
              ~Called(t, "MarkProcessed")

\* One delivery completed and left a row, another failed in the transcoder.
C3_Witness ==
    \E t1, t2 \in Tasks :
        /\ FullyCompleted(t1) /\ HasRecord(task[t1].VideoId)
        /\ Did(t2, "ffmpeg", FALSE) /\ pc[t2] = "done" /\ ~HasRecord(task[t2].VideoId)

\* C4: the store holds at most one row per videoId, and MarkProcessed is
\* not about to be invoked for a V that already has a row.
C4_AtMostOneRecord ==
    /\ \A v \in VideoIds : CopiesIn(ProcessedRow(v), processed_videos) <= 1
    /\ \A t \in Tasks : pc[t] = "MarkProcessed" => ~HasRecord(task[t].VideoId)

\* The idempotency query of this goroutine succeeded and ran while a row for
\* its video existed.
HandledAsDuplicate(t) ==
    \E i \in DOMAIN trace[t] :
        trace[t][i].op = "IsProcessed" /\ trace[t][i].ok /\ trace[t][i].data.rows > 0

\* Handle of t2 began after Handle of t1 had returned, both for the same
\* job, the first fully successful, the second's query successful.
HandledInSequence(t1, t2) ==
    /\ t1 # t2
    /\ body[t1] \in JobBodies /\ body[t2] = body[t1]
    /\ pc[t1] = "done" /\ pc[t2] = "done"
    /\ t1 \in trace[t2][1].data
    /\ FullyCompleted(t1) /\ ~AnsweredProcessed(t1)
    /\ Did(t2, "IsProcessed", TRUE)

\* C5: a delivery whose idempotency query succeeds while a row for its video
\* exists causes no merge, no transcode, no MarkProcessed call and no
\* confirmation, and exactly one acknowledgment; the same job handled twice
\* in sequence, the first run successful, runs the pipeline once and
\* acknowledges twice.
C5_DuplicateSkipsPipeline ==
    /\ \A t \in Tasks :
          HandledAsDuplicate(t) =>
              /\ Count(t, "mergeChunks") = 0 /\ Count(t, "ffmpeg") = 0
              /\ Count(t, "MarkProcessed") = 0 /\ Count(t, "PublishMessage") = 0
              /\ pc[t] \notin PipelineLabels \cup {"MarkProcessed", "Ack", "PublishMessage"}
              /\ Count(t, "Ack") <= 1
              /\ pc[t] = "done" => Count(t, "Ack") = 1 /\ t \in acked
    /\ \A t1, t2 \in Tasks :
          HandledInSequence(t1, t2) =>
              /\ Count(t1, "mergeChunks") + Count(t2, "mergeChunks") = 1
              /\ Count(t1, "ffmpeg") + Count(t2, "ffmpeg") = 1
              /\ Count(t1, "Ack") + Count(t2, "Ack") = 2
              /\ {t1, t2} \subseteq acked

\* The same job was handled twice in sequence.
C5_Witness == \E t1, t2 \in Tasks : HandledInSequence(t1, t2) /\ HandledAsDuplicate(t2)

\* Handle returned after a full success on a video that had no row when the
\* idempotency query ran.
SucceededFresh(t) ==
    /\ pc[t] = "done"
    /\ FullyCompleted(t)
    /\ \E i \in DOMAIN trace[t] : trace[t][i].op = "IsProcessed" /\ trace[t][i].data.rows = 0

\* The successful confirmation publishes of a goroutine that carry exactly
\* the videoId and path of its delivery.
OwnConfirmations(t) ==
    {i \in DOMAIN trace[t] :
        /\ trace[t][i].op = "PublishMessage"
        /\ trace[t][i].data = [video_id |-> body[t].video_id, path |-> body[t].path]}

\* C6 (as stated): after a delivery for a not yet processed video whose
\* merge, transcode and MarkProcessed all succeed, the merged artifact is
\* gone, one row was inserted, the delivery was acknowledged once and
\* exactly one confirmation with the same videoId and path was emitted.
C6_SuccessEffects ==
    \A t \in Tasks :
        SucceededFresh(t) =>
            /\ dirent[task[t].Path] = 0
            /\ Count(t, "MarkProcessed") = 1 /\ HasRecord(task[t].VideoId)
            /\ Count(t, "Ack") = 1 /\ t \in acked
            /\ Cardinality({i \in OwnConfirmations(t) : trace[t][i].ok}) = 1
            /\ \E k \in DOMAIN confirmations :
                  confirmations[k] = [video_id |-> body[t].video_id, path |-> body[t].path]

\* C6 (amended): after such a delivery, the removal of the merged artifact
\* was attempted exactly once (and the artifact is gone if the removal
\* succeeded and no other delivery names the same path), one row was
\* inserted by this delivery, it was acknowledged exactly once, and exactly
\* one publish of a confirmation with the same videoId and path was
\* attempted, which put that message on the queue unless the publish failed.
C6_SuccessEffectsAmended ==
    /\ \A t \in Tasks :
          SucceededFresh(t) =>
              /\ Count(t, "Remove") = 1
              /\ (Did(t, "Remove", TRUE) /\ \A u \in Tasks \ {t} : body[u].path # body[t].path)
                    => dirent[task[t].Path] = 0
              /\ Count(t, "MarkProcessed") = 1 /\ HasRecord(task[t].VideoId)
              /\ Count(t, "Ack") = 1 /\ t \in acked
              /\ Count(t, "PublishMessage") = 1
              /\ Cardinality(OwnConfirmations(t)) = 1
              /\ Did(t, "PublishMessage", TRUE) =>
                    \E k \in DOMAIN confirmations :
                        confirmations[k] = [video_id |-> body[t].video_id, path |-> body[t].path]
    /\ Len(confirmations) = Cardinality({t \in Tasks : Did(t, "PublishMessage", TRUE)})

\* A fresh delivery succeeded, removed the artifact and published.
C6_Witness ==
    \E t \in Tasks :
        /\ SucceededFresh(t) /\ Did(t, "Remove", TRUE) /\ Did(t, "PublishMessage", TRUE)
        /\ dirent[task[t].Path] = 0 /\ Len(confirmations) = 1

\* C7: within one Handle, MarkProcessed succeeds before the acknowledgment
\* and the acknowledgment comes before the confirmation is published; no
\* confirmation is on the queue whose delivery was not marked and
\* acknowledged first.
C7_MarkAckPublishOrder ==
    /\ \A t \in Tasks : \A i \in DOMAIN trace[t] :
          trace[t][i].op = "PublishMessage" =>
              \E j, k \in DOMAIN trace[t] :
                  /\ j < k /\ k < i
                  /\ trace[t][j].op = "MarkProcessed" /\ trace[t][j].ok
                  /\ trace[t][k].op = "Ack"
    /\ \A t \in Tasks : pc[t] = "PublishMessage" => t \in acked /\ HasRecord(task[t].VideoId)
    /\ \A k \in DOMAIN confirmations :
          \E t \in Tasks :
              /\ Did(t, "PublishMessage", TRUE) /\ t \in acked
              /\ confirmations[k] = [video_id |-> task[t].VideoId, path |-> task[t].Path]
              /\ HasRecord(task[t].VideoId)

\* A confirmation was published after a mark and an acknowledgment.
C7_Witness ==
    \E t \in Tasks :
        /\ Len(trace[t]) >= 3 /\ trace[t][Len(trace[t])].op = "PublishMessage"
        /\ trace[t][Len(trace[t])].ok
        /\ trace[t][Len(trace[t]) - 1].op = "Ack"
        /\ trace[t][Len(trace[t]) - 2].op = "MarkProcessed"

\* The number of rows for v is the number of successful MarkProcessed calls.
RowsMatchMarks ==
    \A v \in VideoIds :
        CopiesIn(ProcessedRow(v), processed_videos) =
            Cardinality({t \in Tasks : task[t].VideoId = v /\ Did(t, "MarkProcessed", TRUE)})

\* The report logError made for this goroutine with the given message.
Reported(t, message) ==
    \E i \in DOMAIN trace[t] :
        /\ trace[t][i].op = "logError"
        /\ trace[t][i].data.error = message
        /\ trace[t][i].data.video_id = task[t].VideoId
        /\ trace[t][i].data.details # NilErr
        /\ trace[t][i].data.details = err[t]

\* C8: when merge and transcode succeed and MarkProcessed fails, Handle
\* reports the failure and returns without acknowledging and without
\* publishing; the failed call leaves the processed-video store unchanged.
C8_MarkFailure ==
    /\ \A t \in Tasks :
          Did(t, "MarkProcessed", FALSE) =>
              /\ ProcessVideoSucceeded(t)
              /\ pc[t] \in {"logError_mark", "done"}
              /\ ~Called(t, "Ack") /\ t \notin acked
              /\ ~Called(t, "PublishMessage")
              /\ ~Did(t, "MarkProcessed", TRUE)
              /\ pc[t] = "done" =>
                    /\ Count(t, "logError") = 1
                    /\ Reported(t, "Failed to mark video as processed")
    /\ RowsMatchMarks

\* MarkProcessed failed after a successful pipeline and Handle returned.
C8_Witness ==
    \E t \in Tasks :
        /\ Did(t, "MarkProcessed", FALSE) /\ pc[t] = "done"
        /\ ~HasRecord(task[t].VideoId)

\* The prefix processVideo puts before the error of the stage that failed.
FailedStage(t) ==
    IF Did(t, "mergeChunks", FALSE) THEN "failed to merge chunks"
    ELSE IF Did(t, "MkdirAll", FALSE) THEN "failed to create output directory"
    ELSE "failed to convert to MPEG-DASH"

\* C9: when merge, output-directory creation or the transcoder fails, Handle
\* reports a failure naming the stage and its cause (with the transcoder's
\* combined output when it is the transcoder), and neither calls
\* MarkProcessed nor acknowledges nor publishes.
C9_StageFailure ==
    \A t \in Tasks :
        StageFailed(t) =>
            /\ pc[t] \in {"logError_process", "done"}
            /\ ~Called(t, "MarkProcessed")
            /\ ~Called(t, "Ack") /\ t \notin acked
            /\ ~Called(t, "PublishMessage")
            /\ pc[t] = "done" =>
                  /\ Count(t, "logError") = 1
                  /\ Reported(t, "Failed to process video")
                  /\ \A i \in DOMAIN trace[t] :
                        trace[t][i].op = "logError" =>
                            /\ trace[t][i].data.details.stage = FailedStage(t)
                            /\ trace[t][i].data.details.cause # ""
                            /\ Did(t, "ffmpeg", FALSE) =>
                                  trace[t][i].data.details.output = CombinedOutput
                            /\ Did(t, "mergeChunks", FALSE) =>
                                  trace[t][i].data.details.cause \in
                                      {"failed to create merged file", "failed to open chunk",
                                       "failed to write chunk"}

\* One delivery failed in the transcoder and another in the merge.
C9_Witness ==
    \E t1, t2 \in Tasks :
        /\ Did(t1, "ffmpeg", FALSE) /\ pc[t1] = "done"
        /\ Did(t2, "mergeChunks", FALSE) /\ pc[t2] = "done"

\* C10: a body that does not deserialize makes Handle report "Failed to
\* unmarshal task" (the deserialize stage) and return: no idempotency
\* query, merge, transcode, MarkProcessed, acknowledgment or confirmation.
C10_MalformedBody ==
    \A t \in Tasks :
        /\ (body[t] \in BadBodies /\ pc[t] \notin {"idle", "Handle"}) => Did(t, "Unmarshal", FALSE)
        /\ Did(t, "Unmarshal", FALSE) =>
              /\ pc[t] \in {"logError_unmarshal", "done"}
              /\ t \notin acked
              /\ \A i \in DOMAIN trace[t] : trace[t][i].op \in {"Unmarshal", "logError"}
              /\ pc[t] = "done" =>
                    /\ Len(trace[t]) = 2
                    /\ Reported(t, "Failed to unmarshal task")

\* A malformed body was handled and reported.
C10_Witness ==
    \E t \in Tasks :
        /\ body[t] \in BadBodies /\ pc[t] = "done"
        /\ \E k \in DOMAIN process_errors_log :
              process_errors_log[k].error = "Failed to unmarshal task"


\* The idempotency query of this goroutine failed.
QueryFailed(t) ==
    \E i \in DOMAIN trace[t] : trace[t][i].op = "IsProcessed" /\ ~trace[t][i].ok

\* C11: when the storage query of IsProcessed fails, IsProcessed returns
\* false whatever the table holds, and Handle goes on to the pipeline
\* instead of taking the duplicate branch, also when a row for the video
\* exists.
C11_QueryErrorMeansNotProcessed ==
    \A t \in Tasks :
        QueryFailed(t) =>
            /\ ~AnsweredProcessed(t)
            /\ pc[t] # "AckDuplicate"
            /\ pc[t] = "mergeChunks" \/ pc[t] = "copy" \/ Called(t, "mergeChunks")
            /\ t \in acked => Did(t, "MarkProcessed", TRUE)

\* The query failed while a row for the video existed, and the merge ran.
C11_Witness ==
    \E t \in Tasks :
        /\ \E i \in DOMAIN trace[t] :
              trace[t][i].op = "IsProcessed" /\ ~trace[t][i].ok /\ trace[t][i].data.rows > 0
        /\ Did(t, "mergeChunks", TRUE)


\* C12: when publishing the confirmation fails after a successful
\* MarkProcessed and acknowledgment, Handle produces an error log entry or
\* error report for it before it returns, and the row and the
\* acknowledgment stay in place.
C12_PublishFailureSurfaced ==
    \A t \in Tasks :
        (pc[t] = "done" /\ Did(t, "PublishMessage", FALSE)) =>
            /\ HasRecord(task[t].VideoId) /\ t \in acked
            /\ \E i, j \in DOMAIN trace[t] :
                  /\ trace[t][i].op = "PublishMessage" /\ i < j
                  /\ trace[t][j].op \in {"logError", "slog.Error", "slog.Warn"}


\* ------------------------------------------------- claims about the merge

HasDigit(name) == \E i \in DOMAIN name : IsDigit(name[i])

Range(s) == {s[i] : i \in DOMAIN s}

\* Every name of the listing carries a number, and no two the same number.
DistinctNumbers(listing) ==
    \A i \in DOMAIN listing :
        /\ HasDigit(listing[i].base)
        /\ \A j \in DOMAIN listing :
              i # j => extractNumber(listing[i]) # extractNumber(listing[j])

Bases(s) == [i \in DOMAIN s |-> s[i].base]

\* C13: for a directory whose chunk names carry distinct numbers, a
\* successful mergeChunks writes every chunk once, in ascending order of the
\* number of the first digit run of its name (1, 2, 10), which is not the
\* lexical order of the names (1, 10, 2).
C13_NumericOrder ==
    \A t \in Tasks : \A k \in DOMAIN trace[t] :
        (/\ trace[t][k].op = "mergeChunks" /\ trace[t][k].ok
         /\ DistinctNumbers(Glob(task[t].Path))) =>
            LET merged == trace[t][k].data
                listing == Glob(task[t].Path)
            IN /\ Len(merged) = Len(listing)
               /\ Range(merged) = Range(listing)
               /\ \A i, j \in DOMAIN merged :
                     i < j => extractNumber(merged[i]) < extractNumber(merged[j])
               /\ Bases(listing) = <<Chunk1, Chunk10, Chunk2>> =>
                     Bases(merged) = <<Chunk1, Chunk2, Chunk10>>

\* The directory 1.chunk, 10.chunk, 2.chunk was merged as 1, 2, 10.
C13_Witness ==
    \E t \in Tasks : \E k \in DOMAIN trace[t] :
        /\ trace[t][k].op = "mergeChunks" /\ trace[t][k].ok
        /\ Bases(Glob(task[t].Path)) = <<Chunk1, Chunk10, Chunk2>>
        /\ Bases(trace[t][k].data) = <<Chunk1, Chunk2, Chunk10>>

MergeCauses == {"failed to create merged file", "failed to open chunk", "failed to write chunk"}

\* C15: a chunk name without digits has the ordering key -1, is written
\* before every numbered chunk, and mergeChunks fails only when creating the
\* output, opening a chunk or copying it fails.
C15_NoDigitsSentinel ==
    \A t \in Tasks : \A k \in DOMAIN trace[t] :
        trace[t][k].op = "mergeChunks" =>
            /\ \A i \in DOMAIN Glob(task[t].Path) :
                  ~HasDigit(Glob(task[t].Path)[i].base) =>
                      extractNumber(Glob(task[t].Path)[i]) = -1
            /\ trace[t][k].ok =>
                  /\ Len(trace[t][k].data) = Len(Glob(task[t].Path))
                  /\ \A i, j \in DOMAIN trace[t][k].data :
                        (/\ ~HasDigit(trace[t][k].data[i].base)
                         /\ HasDigit(trace[t][k].data[j].base)) => i < j
            /\ ~trace[t][k].ok => err[t].cause \in MergeCauses

\* A directory with tail.chunk and numbered chunks was merged, tail.chunk
\* first.
C15_Witness ==
    \E t \in Tasks : \E k \in DOMAIN trace[t] :
        /\ trace[t][k].op = "mergeChunks" /\ trace[t][k].ok
        /\ Len(trace[t][k].data) = 3
        /\ trace[t][k].data[1].base = ChunkTail
        /\ HasDigit(trace[t][k].data[2].base)
        /\ HasDigit(trace[t][k].data[3].base)

\* mergeChunks failed on a chunk of its loop.
ChunkFailed(t) == Did(t, "mergeChunks", FALSE) /\ err[t].chunk # <<>>

\* C16: when a chunk cannot be opened or copied, mergeChunks stops there:
\* the output holds the chunks before it and none after it, the error names
\* the chunk, Handle reports it with the merge stage, and neither the output
\* directory is made nor the transcoder run.
C16_MidSequenceFailure ==
    \A t \in Tasks :
        ChunkFailed(t) =>
            /\ chunks[t] # <<>>
            /\ err[t].chunk = Base(Head(chunks[t]))
            /\ err[t].stage = "failed to merge chunks"
            /\ err[t].cause \in {"failed to open chunk", "failed to write chunk"}
            /\ inode[dirent[task[t].Path]] \o chunks[t] \in SortSlice(Glob(task[t].Path))
            /\ \A k \in DOMAIN trace[t] :
                  trace[t][k].op = "mergeChunks" =>
                      trace[t][k].data = inode[dirent[task[t].Path]]
            /\ ~Called(t, "MkdirAll") /\ ~Called(t, "ffmpeg") /\ ~Called(t, "MarkProcessed")
            /\ pc[t] \in {"logError_process", "done"}
            /\ pc[t] = "done" =>
                  /\ Count(t, "logError") = 1
                  /\ Reported(t, "Failed to process video")
                  /\ \A k \in DOMAIN trace[t] :
                        trace[t][k].op = "logError" =>
                            /\ trace[t][k].data.details.stage = "failed to merge chunks"
                            /\ trace[t][k].data.details.chunk = Base(Head(chunks[t]))

\* The second of three chunks failed and Handle returned.
C16_Witness ==
    \E t \in Tasks :
        /\ ChunkFailed(t) /\ pc[t] = "done"
        /\ Len(chunks[t]) = 2
        /\ Len(inode[dirent[task[t].Path]]) = 1


\* ------------------------------------------------ claims about the reports

FailureOps == {"Unmarshal", "mergeChunks", "MkdirAll", "ffmpeg", "MarkProcessed"}

\* How many of the calls of this goroutine failed: a malformed body, a
\* pipeline stage or MarkProcessed.
Failures(t) ==
    Cardinality({i \in DOMAIN trace[t] : trace[t][i].op \in FailureOps /\ ~trace[t][i].ok})

\* How many reports of this goroutine the error store accepted.
Stored(t) ==
    Cardinality({i \in DOMAIN trace[t] : trace[t][i].op = "logError" /\ trace[t][i].ok})

RECURSIVE StoredUpTo(_)
StoredUpTo(n) == IF n = 0 THEN 0 ELSE Stored(n) + StoredUpTo(n - 1)

\* How many rows of the error log equal the report.
RowsEqual(errorData) ==
    Cardinality({i \in DOMAIN process_errors_log : process_errors_log[i] = errorData})

\* How many reports equal to it the goroutines stored.
StoredEqual(errorData) ==
    Cardinality({p \in Tasks \X (1..12) :
        /\ p[2] \in DOMAIN trace[p[1]]
        /\ trace[p[1]][p[2]].op = "logError"
        /\ trace[p[1]][p[2]].ok
        /\ trace[p[1]][p[2]].data = errorData})

\* A Handle execution has at most one failure; when it has returned it has
\* called logError once for it and not at all without one, and the error
\* log holds exactly one row for every report the store accepted.
OneRecordPerFailure ==
    /\ \A t \in Tasks :
          /\ Failures(t) <= 1
          /\ Count(t, "logError") <= Failures(t)
          /\ pc[t] = "done" => Count(t, "logError") = Failures(t)
          /\ \A i \in DOMAIN trace[t] :
                (trace[t][i].op = "logError" /\ trace[t][i].ok) =>
                    RowsEqual(trace[t][i].data) = StoredEqual(trace[t][i].data)
    /\ Len(process_errors_log) = StoredUpTo(MaxTasks)

AppendOnly ==
    /\ Len(process_errors_log') >= Len(process_errors_log)
    /\ SubSeq(process_errors_log', 1, Len(process_errors_log)) = process_errors_log

C18_StoreFailureSwallowed ==
    \A t \in Tasks :
        Did(t, "logError", FALSE) =>
            /\ pc[t] = "done"
            /\ trace[t][Len(trace[t])].op = "logError"
            /\ t \notin acked /\ ~Called(t, "Ack")
            /\ ~Did(t, "MarkProcessed", TRUE)
            /\ ~Called(t, "PublishMessage")
            /\ Stored(t) = 0

\* A pipeline failure whose report could not be stored.
C18_Witness ==
    \E t \in Tasks :
        /\ Did(t, "logError", FALSE) /\ Did(t, "ffmpeg", FALSE)
        /\ pc[t] = "done"
        /\ process_errors_log = <<>>


\* ------------------------------------------- claims about the merged file

\* C20: from the end of a goroutine's merge to the end of its transcode the
\* file <path>/merged.mp4 exists and holds the chunks of the directory in
\* merge order, as this goroutine wrote them; it is what ffmpeg reads.
C20_MergedFileUndisturbed ==
    \A t \in Tasks :
        /\ pc[t] \in {"MkdirAll", "ffmpeg"} =>
              /\ MergedContent(task[t].Path).exists
              /\ MergedContent(task[t].Path).data \in SortSlice(Glob(task[t].Path))
        /\ \A k \in DOMAIN trace[t] :
              trace[t][k].op = "ffmpeg" =>
                  /\ trace[t][k].data.exists
                  /\ trace[t][k].data.data \in SortSlice(Glob(task[t].Path))


\* -------------------------------------------------- claims about redelivery

\* The message of this delivery is settled: its video has a row and the
\* delivery is acknowledged.
Settled(t) == HasRecord(task[t].VideoId) /\ t \in acked

\* Every delivery the broker makes of the message has been handled and none
\* was acknowledged.
Exhausted(t) == pc[t] = "done" /\ t \notin acked /\ redelivered[t] = MaxRedeliveries

\* After a MarkProcessed failure no row exists and the delivery is not
\* acknowledged; a goroutine handling a redelivery of a message that has no
\* row is answered "not processed" unless the query fails, and runs
\* processVideo from the merge on.
RetriedInFull ==
    \A t \in Tasks :
        /\ Did(t, "MarkProcessed", FALSE) =>
              ~HasRecord(task[t].VideoId) /\ t \notin acked
        /\ redelivered[t] > 0 =>
              /\ HasRecord(task[t].VideoId) => Did(t, "MarkProcessed", TRUE)
              /\ ~AnsweredProcessed(t) /\ pc[t] # "AckDuplicate"
              /\ \A i \in DOMAIN trace[t] :
                    trace[t][i].op = "IsProcessed" => trace[t][i].data.rows = 0
              /\ Called(t, "MkdirAll") => Did(t, "mergeChunks", TRUE)
              /\ Called(t, "ffmpeg") => Did(t, "MkdirAll", TRUE)
              /\ Called(t, "MarkProcessed") => Did(t, "ffmpeg", TRUE)

\* C19: when the pipeline succeeds and MarkProcessed fails, no row exists
\* and the delivery stays unacknowledged; the redelivery passes the
\* idempotency gate and runs the whole pipeline again; and the job is
\* eventually marked processed and acknowledged, unless every delivery the
\* broker makes of it ends in a failure.
C19_RetriedUntilMarked ==
    /\ []RetriedInFull
    /\ \A t \in Tasks :
          (pc[t] = "logError_mark") ~> (Settled(t) \/ Exhausted(t))

\* A redelivery after a MarkProcessed failure was marked and acknowledged.
C19_Witness ==
    \E t \in Tasks :
        /\ redelivered[t] > 0
        /\ \E i \in DOMAIN process_errors_log :
              /\ process_errors_log[i].error = "Failed to mark video as processed"
              /\ process_errors_log[i].video_id = task[t].VideoId
        /\ Did(t, "mergeChunks", TRUE) /\ Did(t, "ffmpeg", TRUE)
        /\ Did(t, "MarkProcessed", TRUE)
        /\ Settled(t)

====
